---------------------------- MODULE Spec2Model ----------------------------
(***************************************************************************)
(* Season database of Taiga (src/library/discover.cpp): loading a season   *)
(* document into the membership list `items`, reconciling its entries with *)
(* the anime library, and reviewing the list against the season interval   *)
(* and the content policy.                                                 *)
(***************************************************************************)
EXTENDS Integers, Sequences, FiniteSets, TLC

(***************************************************************************)
(* Bounds of the model.                                                    *)
(***************************************************************************)
MaxEntries == 2
MaxRecords == 2
MaxTime == 2
MaxLoads == 2
MaxCalls == 3
\* entries of a membership list handed to IsRefreshRequired
MaxRefreshEntries == 22

(***************************************************************************)
(* Values.                                                                 *)
(***************************************************************************)
\* sync service ids; a season document names them by string
Services == {1, 2}
ServiceNames == {"myanimelist", "kitsu"}
GetServiceIdByName(name) == IF name = "myanimelist" THEN 1 ELSE 2

\* external identifiers of the services; "" is the empty string
ExtIds == {"a"}

NoDate == [year |-> 0, month |-> 0, day |-> 0]
Dates == {NoDate,
          [year |-> 2018, month |-> 0, day |-> 0],
          [year |-> 2018, month |-> 1, day |-> 1],
          [year |-> 2018, month |-> 4, day |-> 1]}

Seasons == {[name |-> "Winter", year |-> 2018], [name |-> "Spring", year |-> 2018]}
NoSeason == [name |-> "Unknown", year |-> 0]

\* title, type, image, trailer and producers of a document entry
EntryData == {[title |-> "t1", type |-> 1, image |-> "i1", trailer |-> "v1", producers |-> "p1"],
              [title |-> "t2", type |-> 2, image |-> "i2", trailer |-> "v2", producers |-> "p2"]}
\* the same fields of a record that came from the sync service
ServiceData == [title |-> "t0", type |-> 0, image |-> "i0", trailer |-> "v0", producers |-> "p0"]

(***************************************************************************)
(* Date, Season.                                                           *)
(***************************************************************************)
DateLE(a, b) ==
  \/ a.year < b.year
  \/ a.year = b.year /\ a.month < b.month
  \/ a.year = b.year /\ a.month = b.month /\ a.day <= b.day

IsValidDate(date) == date.year > 0

\* Season::GetInterval: the bounds of the quarter
GetInterval(season) ==
  IF season.name = "Winter"
    THEN [date_start |-> [year |-> season.year, month |-> 1, day |-> 1],
          date_end |-> [year |-> season.year, month |-> 4, day |-> 1]]
  ELSE IF season.name = "Spring"
    THEN [date_start |-> [year |-> season.year, month |-> 4, day |-> 1],
          date_end |-> [year |-> season.year, month |-> 7, day |-> 1]]
  ELSE [date_start |-> NoDate, date_end |-> NoDate]

ToLower_Copy(name) ==
  IF name = "Winter" THEN "winter" ELSE IF name = "Spring" THEN "spring" ELSE "unknown"

ToWstr(n) == IF n = 2018 THEN "2018" ELSE "0"

\* strings are kept as the sequence of the pieces they are concatenated from
SeasonFileName(season) == <<ToWstr(season.year), "_", ToLower_Copy(season.name), ".xml">>

remote_location == <<"https://raw.githubusercontent.com/erengy/anime-seasons/master/data/">>

\* the url without the file name
RequestUrl_NoFile(filename) == remote_location

\* line 70: http_request.url
RequestUrl(filename) == remote_location \o filename

(***************************************************************************)
(* The anime library (AnimeDatabase): records in insertion order.          *)
(***************************************************************************)
NoIds == [s \in Services |-> ""]

\* index of the record with this local id, 0 when there is none
FindItemById(lib, anime_id) ==
  IF \E i \in 1..Len(lib) : lib[i].id = anime_id
    THEN CHOOSE i \in 1..Len(lib) : lib[i].id = anime_id
    ELSE 0

\* index of the first record holding this id for this service, 0 when none
FindItem(lib, id, service) ==
  IF id # "" /\ \E i \in 1..Len(lib) : lib[i].uids[service] = id
    THEN CHOOSE i \in 1..Len(lib) :
           /\ lib[i].uids[service] = id
           /\ \A j \in 1..(i - 1) : lib[j].uids[service] # id
    ELSE 0

\* AnimeDatabase.UpdateItem: insert-or-update keyed by the record the item's
\* identifiers resolve to; a new record gets a fresh local id
RECURSIVE FindByAnyId(_, _, _)
FindByAnyId(lib, uids, services) ==
  IF services = <<>> THEN 0
  ELSE LET found == FindItem(lib, uids[Head(services)], Head(services))
       IN IF found # 0 THEN found ELSE FindByAnyId(lib, uids, Tail(services))

\* the keys from the greatest to the least
RECURSIVE Descending(_)
Descending(S) ==
  IF S = {} THEN <<>>
  ELSE LET greatest == CHOOSE x \in S : \A y \in S : x >= y
       IN <<greatest>> \o Descending(S \ {greatest})

RECURSIVE Ascending(_)
Ascending(S) ==
  IF S = {} THEN <<>>
  ELSE LET least == CHOOSE x \in S : \A y \in S : x <= y
       IN <<least>> \o Ascending(S \ {least})

NewRecord(anime_id, item) ==
  [id |-> anime_id, uids |-> item.uids, source |-> item.source,
   modified |-> item.modified, title |-> item.title, type |-> item.type,
   image |-> item.image, trailer |-> item.trailer, producers |-> item.producers,
   date_start |-> NoDate, nsfw |-> FALSE, synopsis |-> ""]

Overwrite(old, item) ==
  [old EXCEPT !.uids = [s \in Services |-> IF item.uids[s] # "" THEN item.uids[s] ELSE old.uids[s]],
              !.source = item.source,
              !.modified = item.modified, !.title = item.title, !.type = item.type,
              !.image = item.image, !.trailer = item.trailer,
              !.producers = item.producers]

UpdateItem(lib, next_id, item) ==
  LET found == FindByAnyId(lib, item.uids, Ascending(Services))
  IN IF found # 0
       THEN [lib |-> [lib EXCEPT ![found] = Overwrite(lib[found], item)],
             next_id |-> next_id, id |-> lib[found].id]
       ELSE [lib |-> Append(lib, NewRecord(next_id, item)),
             next_id |-> next_id + 1, id |-> next_id]

(***************************************************************************)
(* SeasonDatabase::LoadString.                                             *)
(***************************************************************************)
\* std::map<enum_t, std::wstring>: a function on the keys present
MapPut(m, k, v) == [x \in (DOMAIN m) \cup {k} |-> IF x = k THEN v ELSE m[x]]
\* std::map::operator[] read: the value, or the empty string it inserts
MapAt(m, k) == IF k \in DOMAIN m THEN m[k] ELSE ""

\* lines 100-107: id_map[service_id] = id, in the order of the id nodes
RECURSIVE BuildIdMap(_, _)
BuildIdMap(id_nodes, id_map) ==
  IF id_nodes = <<>> THEN id_map
  ELSE BuildIdMap(Tail(id_nodes),
                  MapPut(id_map, GetServiceIdByName(Head(id_nodes).name), Head(id_nodes).id))

\* lines 112-116: the map is walked in ascending key order, first match wins
RECURSIVE FirstMatch(_, _, _)
FirstMatch(lib, id_map, keys) ==
  IF keys = <<>> THEN 0
  ELSE LET anime_item == FindItem(lib, id_map[Head(keys)], Head(keys))
       IN IF anime_item # 0 THEN anime_item ELSE FirstMatch(lib, id_map, Tail(keys))

ResolveEntry(lib, id_map) == FirstMatch(lib, id_map, Ascending(DOMAIN id_map))

\* the comparison made strict
IsUpToDate_Strict(record, modified) == record.modified > modified

\* line 118: anime_item->GetLastModified() >= modified
IsUpToDate(record, modified) == record.modified >= modified

\* rejecting only an entry that has no identifier at all
HasNoCurrentId_AnyId(id_map, current_service_id) == DOMAIN id_map = {}

\* line 122: id_map[current_service_id].empty()
HasNoCurrentId(id_map, current_service_id) == MapAt(id_map, current_service_id) = ""

\* the item without SetLastModified
MakeItem_NoTimestamp(id_map, current_service_id, modified, node) ==
  [uids |-> [s \in Services |-> IF s \in DOMAIN id_map THEN id_map[s] ELSE ""],
   source |-> current_service_id,
   modified |-> 0, title |-> node.data.title, type |-> node.data.type,
   image |-> node.data.image, trailer |-> node.data.trailer,
   producers |-> node.data.producers]

\* lines 128-138: the item handed to UpdateItem
MakeItem(id_map, current_service_id, modified, node) ==
  [uids |-> [s \in Services |-> MapAt(id_map, s)], source |-> current_service_id,
   modified |-> modified, title |-> node.data.title, type |-> node.data.type,
   image |-> node.data.image, trailer |-> node.data.trailer,
   producers |-> node.data.producers]

\* lines 99-143, one <anime> node; st = [lib, next_id, items, trace]
ProcessNode(st, node, modified, current_service_id) ==
  LET id_map == BuildIdMap(node.ids, <<>>)
      anime_item == ResolveEntry(st.lib, id_map)
      matched == IF anime_item # 0 THEN st.lib[anime_item].id ELSE 0
      step(lib, pushed) == [node |-> node, matched |-> matched, before |-> st.lib,
                            after |-> lib, pushed |-> pushed]
  IN IF anime_item # 0 /\ IsUpToDate(st.lib[anime_item], modified)
       THEN [st EXCEPT !.items = Append(@, matched),
                       !.trace = Append(@, step(st.lib, matched))]
     ELSE IF HasNoCurrentId(id_map, current_service_id)
       THEN [st EXCEPT !.trace = Append(@, step(st.lib, 0))]
     ELSE LET upd == UpdateItem(st.lib, st.next_id,
                                MakeItem(id_map, current_service_id, modified, node))
          IN [lib |-> upd.lib, next_id |-> upd.next_id,
              items |-> Append(st.items, upd.id),
              trace |-> Append(st.trace, step(upd.lib, upd.id))]

\* the loop with break in the place of continue at line 125
RECURSIVE ProcessNodes_Break(_, _, _, _)
ProcessNodes_Break(st, nodes, modified, current_service_id) ==
  IF nodes = <<>> THEN st
  ELSE LET nx == ProcessNode(st, Head(nodes), modified, current_service_id)
       IN IF nx.items = st.items THEN nx
          ELSE ProcessNodes_Break(nx, Tail(nodes), modified, current_service_id)

RECURSIVE ProcessNodes(_, _, _, _)
ProcessNodes(st, nodes, modified, current_service_id) ==
  IF nodes = <<>> THEN st
  ELSE ProcessNodes(ProcessNode(st, Head(nodes), modified, current_service_id),
                    Tail(nodes), modified, current_service_id)

\* a load that saves the library whatever the list holds
SaveDatabase_Always(list) == 1

\* lines 145-146: the number of anime::db.SaveDatabase() calls after the loop
SaveDatabase(list) == IF list # <<>> THEN 1 ELSE 0

\* a load that appends to the list it finds
Clear_Kept(list) == list

\* line 97: items.clear()
Clear(list) == <<>>

\* a load that clears the list before it looks at the parse result
LoadString_ClearFirst(lib, next_id, items, season, current_service_id, data) ==
  IF data.status # "ok"
    THEN [ret |-> FALSE, lib |-> lib, next_id |-> next_id, items |-> Clear(items),
          current_season |-> season, trace |-> <<>>, saved |-> 0]
  ELSE LET st == ProcessNodes([lib |-> lib, next_id |-> next_id, items |-> Clear(items),
                               trace |-> <<>>],
                              data.nodes, data.modified, current_service_id)
       IN [ret |-> TRUE, lib |-> st.lib, next_id |-> st.next_id, items |-> st.items,
           current_season |-> data.name, trace |-> st.trace,
           saved |-> SaveDatabase(st.items)]

\* data is the content of a season file: [status, name, modified, nodes]
LoadString(lib, next_id, items, season, current_service_id, data) ==
  IF data.status # "ok"
    THEN [ret |-> FALSE, lib |-> lib, next_id |-> next_id, items |-> items,
          current_season |-> season, trace |-> <<>>, saved |-> 0]
  ELSE LET st == ProcessNodes([lib |-> lib, next_id |-> next_id, items |-> Clear(items),
                               trace |-> <<>>],
                              data.nodes, data.modified, current_service_id)
       IN [ret |-> TRUE, lib |-> st.lib, next_id |-> st.next_id, items |-> st.items,
           current_season |-> data.name, trace |-> st.trace,
           saved |-> SaveDatabase(st.items)]

(***************************************************************************)
(* SeasonDatabase::Review.                                                 *)
(***************************************************************************)
\* the check with the end bound left out
is_within_date_interval_HalfOpen(anime_item, date_start, date_end) ==
  LET anime_start == anime_item.date_start
  IN /\ anime_start.year # 0 /\ anime_start.month # 0
     /\ DateLE(date_start, anime_start) /\ ~DateLE(date_end, anime_start)

\* lines 191-198
is_within_date_interval(anime_item, date_start, date_end) ==
  LET anime_start == anime_item.date_start
  IN /\ anime_start.year # 0 /\ anime_start.month # 0
     /\ DateLE(date_start, anime_start) /\ DateLE(anime_start, date_end)

IsNsfw(anime_item) == anime_item.nsfw

\* lines 200-203
is_nsfw(anime_item, hide_nsfw) == hide_nsfw /\ IsNsfw(anime_item)

\* the index left where it was after an erase
SizeDec_Forgotten(i) == i

\* size_t arithmetic of the loop index: 0 - 1 wraps to SIZE_MAX (written -1
\* here) and SIZE_MAX + 1 wraps to 0
SizeDec(i) == IF i = 0 THEN -1 ELSE i - 1
SizeInc(i) == IF i = -1 THEN 0 ELSE i + 1

\* items.erase(items.begin() + i), i counted from 0
Erase(list, i) == SubSeq(list, 1, i) \o SubSeq(list, i + 2, Len(list))

\* the date check without IsValidDate
IsInvalidItem_NoValidCheck(anime_item, hide_nsfw, date_start, date_end) ==
  \/ hide_nsfw /\ anime_item.nsfw
  \/ ~(/\ anime_item.date_start.year # 0 /\ anime_item.date_start.month # 0
        /\ DateLE(date_start, anime_item.date_start)
        /\ DateLE(anime_item.date_start, date_end))

\* lines 211-212: the condition under which a list entry is erased
IsInvalidItem(anime_item, hide_nsfw, date_start, date_end) ==
  \/ is_nsfw(anime_item, hide_nsfw)
  \/ /\ IsValidDate(anime_item.date_start)
     /\ ~is_within_date_interval(anime_item, date_start, date_end)

\* lines 206-218
RECURSIVE CheckInvalidItems(_, _, _, _, _, _)
CheckInvalidItems(list, i, lib, hide_nsfw, date_start, date_end) ==
  IF ~(i < Len(list)) THEN list
  ELSE LET anime_item == FindItemById(lib, list[i + 1])
       IN IF anime_item # 0 /\ IsInvalidItem(lib[anime_item], hide_nsfw, date_start, date_end)
            THEN CheckInvalidItems(Erase(list, i), SizeInc(SizeDec(i)), lib,
                                   hide_nsfw, date_start, date_end)
            ELSE CheckInvalidItems(list, SizeInc(i), lib, hide_nsfw, date_start, date_end)

InList(list, anime_id) == \E k \in 1..Len(list) : list[k] = anime_id

\* the discovery without the date check
IsSkipped_NoDate(anime_item, hide_nsfw, date_start, date_end) ==
  is_nsfw(anime_item, hide_nsfw)

\* the discovery without the content-policy check
IsSkipped_NoNsfw(anime_item, hide_nsfw, date_start, date_end) ==
  ~is_within_date_interval(anime_item, date_start, date_end)

\* line 224: the condition under which a library record is not added
IsSkipped(anime_item, hide_nsfw, date_start, date_end) ==
  is_nsfw(anime_item, hide_nsfw) \/ ~is_within_date_interval(anime_item, date_start, date_end)

\* lines 221-242
RECURSIVE CheckMissingItems(_, _, _, _, _, _)
CheckMissingItems(list, k, lib, hide_nsfw, date_start, date_end) ==
  IF k > Len(lib) THEN list
  ELSE IF InList(list, lib[k].id) \/ IsSkipped(lib[k], hide_nsfw, date_start, date_end)
    THEN CheckMissingItems(list, k + 1, lib, hide_nsfw, date_start, date_end)
    ELSE CheckMissingItems(Append(list, lib[k].id), k + 1, lib, hide_nsfw, date_start, date_end)

ReviewItems(list, lib, season, hide_nsfw) ==
  LET interval == GetInterval(season)
      kept == CheckInvalidItems(list, 0, lib, hide_nsfw, interval.date_start, interval.date_end)
  IN CheckMissingItems(kept, 1, lib, hide_nsfw, interval.date_start, interval.date_end)

(***************************************************************************)
(* SeasonDatabase::IsRefreshRequired.                                      *)
(***************************************************************************)
\* line 171: the count that makes a refresh required
RefreshThreshold == 20

GetSynopsis(anime_item) == anime_item.synopsis

\* required as soon as the threshold is reached
ExceedsThreshold_Reached(count) == count >= RefreshThreshold

\* line 171: count > 20
ExceedsThreshold(count) == count > RefreshThreshold

\* lines 164-175: the loop over items, left at the first count over the threshold
RECURSIVE RefreshLoop(_, _, _)
RefreshLoop(list, lib, count) ==
  IF list = <<>> THEN FALSE
  ELSE LET anime_item == FindItemById(lib, Head(list))
           counted == /\ anime_item # 0
                      /\ \/ ~IsValidDate(lib[anime_item].date_start)
                         \/ GetSynopsis(lib[anime_item]) = ""
           next == IF counted THEN count + 1 ELSE count
       IN IF ExceedsThreshold(next) THEN TRUE ELSE RefreshLoop(Tail(list), lib, next)

\* lines 160-178
RefreshRequired(list, lib) == RefreshLoop(list, lib, 0)

(***************************************************************************)
(* Inputs: season files and libraries.                                     *)
(***************************************************************************)
SeqsUpTo(S, n) == UNION {[1..k -> S] : k \in 0..n}

IdNodes == [name : ServiceNames, id : ExtIds]
\* the <id> nodes of an <anime> node, in document order, one per service at most
IdNodeSeqs == {q \in SeqsUpTo(IdNodes, Cardinality(ServiceNames)) :
                 \A i, j \in 1..Len(q) : q[i].name = q[j].name => i = j}
AnimeNodes == [ids : IdNodeSeqs, data : EntryData]

Missing == [status |-> "missing"]
Corrupt == [status |-> "corrupt"]
Documents(season, nodes, n) ==
  [status : {"ok"}, name : {season}, modified : 1..MaxTime, nodes : SeqsUpTo(nodes, n)]

FileNames == {SeasonFileName(season) : season \in Seasons}
Winter == [name |-> "Winter", year |-> 2018]

\* a record as the sync service left it
ServiceRecord(uids, modified, date_start, nsfw, source) ==
  [id |-> 0, uids |-> uids, source |-> source, modified |-> modified,
   title |-> ServiceData.title, type |-> ServiceData.type, image |-> ServiceData.image,
   trailer |-> ServiceData.trailer, producers |-> ServiceData.producers,
   date_start |-> date_start, nsfw |-> nsfw, synopsis |-> "s0"]

UidMaps == [Services -> ExtIds \cup {""}] \ {NoIds}

\* libraries: local ids 1..n in insertion order, no external id held twice
Libraries(records) ==
  {[i \in 1..Len(q) |-> [q[i] EXCEPT !.id = i]] :
     q \in {q \in SeqsUpTo(records, MaxRecords) :
              \A i, j \in 1..Len(q) : \A s \in Services :
                 (i # j /\ q[i].uids[s] # "") => q[i].uids[s] # q[j].uids[s]}}

\* libraries that differ in what the loader reads: identifiers and timestamps
LoaderRecords(source) ==
  {ServiceRecord(u, m, NoDate, FALSE, source) : u \in UidMaps, m \in {0, MaxTime}}
\* libraries that differ in what the review reads: start dates and the mature flag
CuratorRecords(source) ==
  {ServiceRecord(u, MaxTime, d, n, source) :
     u \in {u \in UidMaps : \E s \in Services : u[s] = ""}, d \in Dates, n \in BOOLEAN}
CuratorNodes ==
  {node \in AnimeNodes : Len(node.ids) = 1 /\ node.data.title = "t1"}

\* what IsRefreshRequired reads: start dates and synopses of the listed
\* records, record 1 known to the first service and record 2 to the second
RefreshRecords(anime_id) ==
  {[ServiceRecord([s \in Services |-> IF s = anime_id THEN "a" ELSE ""],
                  MaxTime, d, FALSE, 1) EXCEPT !.id = anime_id, !.synopsis = y] :
     d \in Dates, y \in {"", "s0"}}
\* libraries of records 1 and 2, either of which may have been deleted
RefreshLibraries ==
  {<<>>} \cup {<<r>> : r \in RefreshRecords(1) \cup RefreshRecords(2)}
         \cup {<<r1, r2>> : r1 \in RefreshRecords(1), r2 \in RefreshRecords(2)}
Repeat(x, n) == [i \in 1..n |-> x]
\* lists as a document with repeated entries leaves them
RefreshLists ==
  {q \in {Repeat(1, k) \o Repeat(2, m) :
            k \in 0..MaxRefreshEntries, m \in 0..MaxRefreshEntries} :
     Len(q) <= MaxRefreshEntries}

(***************************************************************************)
(* State.                                                                  *)
(***************************************************************************)
VARIABLES
  current_service,  \* taiga::GetCurrentServiceId()
  lib,              \* AnimeDatabase.items
  next_id,          \* the next local id of the library
  items,            \* SeasonDatabase::items, the membership list
  current_season,   \* SeasonDatabase::current_season
  disk,             \* the season files, by file name
  requests,         \* urls handed to ConnectionManager.MakeRequest
  loads,            \* number of LoadSeason calls so far
  calls,            \* number of operations so far
  last              \* the last operation: arguments, result, state before it

vars == <<current_service, lib, next_id, items, current_season, disk, requests, loads, calls, last>>

Before ==
  [op |-> "Init", season |-> NoSeason, hide_nsfw |-> FALSE, anime_id |-> 0,
   ret |-> FALSE, parsed |-> FALSE, error |-> FALSE, downloading |-> FALSE,
   saved |-> 0, trace |-> <<>>, reload |-> FALSE, again |-> FALSE,
   pre_lib |-> lib, pre_items |-> items, pre_requests |-> requests,
   pre_season |-> current_season]

LoaderInputs ==
  /\ current_service \in Services
  /\ lib \in Libraries(LoaderRecords(current_service))
  /\ \E data \in {Missing, Corrupt} \cup Documents(Winter, AnimeNodes, MaxEntries) :
       disk = [f \in FileNames |-> IF f = SeasonFileName(Winter) THEN data ELSE Missing]

CuratorInputs ==
  /\ current_service \in Services
  /\ lib \in {l \in Libraries(CuratorRecords(current_service)) :
                \A i \in 1..Len(l) : i > 1 => l[i].uids[1] = ""}
  /\ \E data \in {Corrupt} \cup {d \in Documents(Winter, CuratorNodes, MaxEntries) : d.modified = 1} :
       disk = [f \in FileNames |-> IF f = SeasonFileName(Winter) THEN data ELSE Missing]

Start ==
  /\ next_id = Len(lib) + 1
  /\ items = <<>>
  /\ current_season = NoSeason
  /\ requests = <<>>
  /\ loads = 0
  /\ calls = 0
  /\ last = [op |-> "Init", season |-> NoSeason, hide_nsfw |-> FALSE, anime_id |-> 0,
             ret |-> FALSE, parsed |-> FALSE, error |-> FALSE, downloading |-> FALSE,
             saved |-> 0, trace |-> <<>>, reload |-> FALSE, again |-> FALSE,
             pre_lib |-> lib, pre_items |-> <<>>, pre_requests |-> <<>>,
             pre_season |-> NoSeason]

(***************************************************************************)
(* Operations.                                                             *)
(***************************************************************************)
\* a LoadFile that keeps a failed LoadString to itself
DisplayErrorMessage_Silent(loaded) == FALSE

\* lines 77-80: LoadFile shows an error message when LoadString fails
DisplayErrorMessage(loaded) == ~loaded

\* LoadSeason -> LoadFile -> LoadString
LoadSeason(season) ==
  LET filename == SeasonFileName(season)
      data == disk[filename]
      again == last.op = "LoadSeason" /\ last.ret /\ last.season = season
  IN /\ loads < MaxLoads /\ calls < MaxCalls
     /\ loads' = loads + 1 /\ calls' = calls + 1
     /\ UNCHANGED <<current_service, disk>>
     /\ IF data.status = "missing"
          THEN /\ requests' = IF remote_location # <<>>
                                THEN Append(requests, RequestUrl(filename))
                                ELSE requests
               /\ UNCHANGED <<lib, next_id, items, current_season>>
               /\ last' = [Before EXCEPT !.op = "LoadSeason", !.season = season,
                                         !.downloading = remote_location # <<>>]
          ELSE \E r \in {LoadString(lib, next_id, items, current_season,
                                        current_service, data)} :
               /\ Len(r.lib) <= MaxRecords
               /\ lib' = r.lib
               /\ next_id' = r.next_id
               /\ items' = r.items
               /\ current_season' = r.current_season
               /\ UNCHANGED requests
               /\ last' = [Before EXCEPT !.op = "LoadSeason", !.season = season,
                                         !.ret = r.ret, !.parsed = TRUE,
                                         !.error = DisplayErrorMessage(r.ret), !.saved = r.saved,
                                         !.trace = r.trace, !.reload = again /\ r.ret]

LoadSeasonFromMemory(season) ==
  /\ calls < MaxCalls /\ calls' = calls + 1
  /\ current_season' = season
  /\ \E hide_nsfw \in BOOLEAN :
       /\ items' = ReviewItems(<<>>, lib, season, hide_nsfw)
       /\ last' = [Before EXCEPT !.op = "LoadSeasonFromMemory", !.season = season,
                                 !.hide_nsfw = hide_nsfw, !.ret = TRUE]
  /\ UNCHANGED <<current_service, lib, next_id, disk, requests, loads>>

Review(hide_nsfw) ==
  /\ calls < MaxCalls /\ calls' = calls + 1
  /\ items' = ReviewItems(items, lib, current_season, hide_nsfw)
  /\ last' = [Before EXCEPT !.op = "Review", !.hide_nsfw = hide_nsfw,
                            !.again = /\ last.op \in {"Review", "LoadSeasonFromMemory"}
                                      /\ last.hide_nsfw = hide_nsfw]
  /\ UNCHANGED <<current_service, lib, next_id, current_season, disk, requests, loads>>

IsRefreshRequired ==
  /\ calls < MaxCalls /\ calls' = calls + 1
  /\ last' = [Before EXCEPT !.op = "IsRefreshRequired",
                            !.ret = RefreshRequired(items, lib)]
  /\ UNCHANGED <<current_service, lib, next_id, items, current_season, disk,
                 requests, loads>>

(***************************************************************************)
(* Environment.                                                            *)
(***************************************************************************)
\* a record is deleted from the library by another part of the application
DeleteItem(anime_id) ==
  /\ calls < MaxCalls /\ calls' = calls + 1
  /\ FindItemById(lib, anime_id) # 0
  /\ lib' = Erase(lib, FindItemById(lib, anime_id) - 1)
  /\ last' = [Before EXCEPT !.op = "DeleteItem", !.anime_id = anime_id]
  /\ UNCHANGED <<current_service, next_id, items, current_season, disk, requests, loads>>

\* the loader against every library and season file
NextLoader ==
  \E season \in Seasons : LoadSeason(season)

InitLoader == LoaderInputs /\ Start

SpecLoader == InitLoader /\ [][NextLoader]_vars

\* the curator against libraries with start dates and mature records
NextCurator ==
  \/ \E season \in Seasons : LoadSeason(season)
  \/ \E season \in Seasons : LoadSeasonFromMemory(season)
  \/ \E hide_nsfw \in BOOLEAN : Review(hide_nsfw)
  \/ \E anime_id \in 1..(next_id - 1) : DeleteItem(anime_id)

InitCurator == CuratorInputs /\ Start

SpecCurator == InitCurator /\ [][NextCurator]_vars

\* the refresh heuristic against every list a season document can leave
RefreshInputs ==
  /\ current_service \in Services
  /\ lib \in RefreshLibraries
  /\ items \in RefreshLists
  /\ next_id = 3
  /\ current_season = Winter
  /\ disk = [f \in FileNames |-> Missing]
  /\ requests = <<>>
  /\ loads = 0
  /\ calls = 0

InitRefresh == RefreshInputs /\ last = Before

NextRefresh == IsRefreshRequired

SpecRefresh == InitRefresh /\ [][NextRefresh]_vars

(***************************************************************************)
(* Properties.                                                             *)
(***************************************************************************)
NoDuplicates(list) == \A i, j \in 1..Len(list) : list[i] = list[j] => i = j

\* the last call was a LoadSeason that reached LoadString and parsed the file
Loaded == last.op = "LoadSeason" /\ last.parsed /\ last.ret
LoadedDocument == disk[SeasonFileName(last.season)]
StepIdMap(step) == BuildIdMap(step.node.ids, <<>>)
\* the entry of this step names no identifier for the current service
StepHasNoCurrentId(step) ==
  \A n \in 1..Len(step.node.ids) :
    GetServiceIdByName(step.node.ids[n].name) = current_service => step.node.ids[n].id = ""
StepRange == 1..Len(last.trace)

\* the fields a season document can set
SeriesFields(record) ==
  <<record.uids, record.modified, record.title, record.type, record.image,
    record.trailer, record.producers>>
HoldsEntryData(record, node) ==
  /\ record.title = node.data.title /\ record.type = node.data.type
  /\ record.image = node.data.image /\ record.trailer = node.data.trailer
  /\ record.producers = node.data.producers

\* C1: the membership list never holds a record identifier more than once,
\* whatever sequence of LoadString, LoadSeasonFromMemory and Review calls ran
C1_Uniqueness == NoDuplicates(items)

\* C2: an entry without an identifier for the current service appends nothing
\* to the membership list
C2_NoIdNeverListed ==
  Loaded => \A k \in StepRange : StepHasNoCurrentId(last.trace[k]) => last.trace[k].pushed = 0

\* C3: processing an entry without an identifier for the current service
\* leaves the library as it was: no record inserted, none updated
C3_NoIdLibraryUntouched ==
  Loaded => \A k \in StepRange :
              StepHasNoCurrentId(last.trace[k]) => last.trace[k].after = last.trace[k].before

\* C3 witness: such an entry was processed while it matched an out-of-date record
C3_Witness ==
  /\ Loaded
  /\ \E k \in StepRange :
       LET step == last.trace[k]
       IN /\ StepHasNoCurrentId(step)
          /\ step.matched # 0
          /\ step.before[FindItemById(step.before, step.matched)].modified
               < LoadedDocument.modified
          /\ step.after = step.before

\* C4: loading the same document a second time leaves the membership list as
\* the first load left it, changes no record's timestamp and creates no record
C4_LoadIdempotent ==
  last.reload =>
    /\ items = last.pre_items
    /\ Len(lib) = Len(last.pre_lib)
    /\ \A i \in 1..Len(lib) :
         lib[i].id = last.pre_lib[i].id /\ lib[i].modified = last.pre_lib[i].modified

\* C5: a record whose timestamp is not older than the document's keeps its
\* title, type, image, trailer, producers, identifiers and timestamp
C5_UpToDateKept ==
  Loaded =>
    \A i \in 1..Len(last.pre_lib) :
      last.pre_lib[i].modified >= LoadedDocument.modified =>
        /\ FindItemById(lib, last.pre_lib[i].id) # 0
        /\ SeriesFields(lib[FindItemById(lib, last.pre_lib[i].id)])
             = SeriesFields(last.pre_lib[i])

\* C5 witness: an entry matched an out-of-date record first while its
\* identifier for the current service belongs to an up-to-date record, and
\* the load went on to overwrite the out-of-date one
C5_Witness ==
  /\ Loaded
  /\ \E k \in StepRange :
       LET step == last.trace[k]
           other == FindItem(step.before, MapAt(StepIdMap(step), current_service),
                             current_service)
       IN /\ step.matched # 0 /\ other # 0
          /\ step.before[other].id # step.matched
          /\ step.before[other].modified >= LoadedDocument.modified
          /\ step.before[FindItemById(step.before, step.matched)].modified
               < LoadedDocument.modified
          /\ step.after # step.before

\* the entry of this step matched a record older than the document and
\* carries an identifier for the current service
StepOverwrites(step) ==
  /\ step.matched # 0
  /\ step.before[FindItemById(step.before, step.matched)].modified < LoadedDocument.modified
  /\ ~StepHasNoCurrentId(step)

\* C6: an out-of-date matched record is overwritten in place: it holds the
\* entry's data and the document's timestamp, its identifier is the one
\* appended to the list, and no record is created for the entry
C6_OverwriteInPlace ==
  Loaded => \A k \in StepRange :
    LET step == last.trace[k]
        at == FindItemById(step.after, step.matched)
    IN StepOverwrites(step) =>
         /\ at # 0
         /\ HoldsEntryData(step.after[at], step.node)
         /\ step.after[at].modified = LoadedDocument.modified
         /\ step.pushed = step.matched
         /\ Len(step.after) = Len(step.before)
         /\ FindItemById(lib, step.matched) # 0
         /\ HoldsEntryData(lib[FindItemById(lib, step.matched)], step.node)
         /\ lib[FindItemById(lib, step.matched)].modified = LoadedDocument.modified

\* C6 witness: an entry overwrote the out-of-date record it matched
C6_Witness ==
  /\ Loaded
  /\ \E k \in StepRange :
       /\ StepOverwrites(last.trace[k])
       /\ last.trace[k].after # last.trace[k].before
       /\ last.trace[k].pushed = last.trace[k].matched

Reviewed == last.op = "Review"
ReviewInterval == GetInterval(current_season)
WithinInterval(record) ==
  is_within_date_interval(record, ReviewInterval.date_start, ReviewInterval.date_end)
LibRange == 1..Len(lib)

\* C7: after a Review call every identifier of the membership list refers to
\* a record that exists in the library (a deleted record's reference is gone)
C7_NoDanglingAfterReview ==
  Reviewed => \A k \in 1..Len(items) : FindItemById(lib, items[k]) # 0

\* C8: a record with an unknown start date that the content policy does not
\* exclude is neither removed from the list nor added to it by Review
C8_UnknownDateAsymmetry ==
  Reviewed => \A i \in LibRange :
    (~IsValidDate(lib[i].date_start) /\ ~is_nsfw(lib[i], last.hide_nsfw)) =>
      (InList(items, lib[i].id) <=> InList(last.pre_items, lib[i].id))

\* C8 witness: Review kept a listed record with an unknown start date and
\* left an unlisted one out
C8_Witness ==
  /\ Reviewed
  /\ \E i, j \in LibRange :
       /\ ~IsValidDate(lib[i].date_start) /\ ~is_nsfw(lib[i], last.hide_nsfw)
       /\ ~IsValidDate(lib[j].date_start) /\ ~is_nsfw(lib[j], last.hide_nsfw)
       /\ InList(last.pre_items, lib[i].id) /\ InList(items, lib[i].id)
       /\ ~InList(last.pre_items, lib[j].id) /\ ~InList(items, lib[j].id)

\* C9: with mature content hidden no listed identifier refers to a mature
\* record after Review; with it shown, a mature record is kept or added
\* exactly as its start date alone decides
C9_ContentPolicyComplete ==
  Reviewed =>
    /\ last.hide_nsfw =>
         \A k \in 1..Len(items) :
           FindItemById(lib, items[k]) # 0 => ~IsNsfw(lib[FindItemById(lib, items[k])])
    /\ ~last.hide_nsfw =>
         \A i \in LibRange : IsNsfw(lib[i]) =>
           /\ (/\ InList(last.pre_items, lib[i].id)
               /\ (~IsValidDate(lib[i].date_start) \/ WithinInterval(lib[i])))
                => InList(items, lib[i].id)
           /\ (~InList(last.pre_items, lib[i].id) /\ WithinInterval(lib[i]))
                => InList(items, lib[i].id)

\* C9 witness: Review with mature content hidden erased two adjacent entries
\* of mature records, the first of them at the head of the list
C9_Witness ==
  /\ Reviewed /\ last.hide_nsfw
  /\ Len(last.pre_items) >= 2
  /\ \A k \in 1..2 :
       /\ FindItemById(lib, last.pre_items[k]) # 0
       /\ IsNsfw(lib[FindItemById(lib, last.pre_items[k])])
       /\ ~InList(items, last.pre_items[k])

\* C10: when the season file cannot be read LoadFile returns false without
\* parsing and enqueues exactly one transfer, for the remote location followed
\* by the file name; in every other outcome it enqueues none
C10_MissingFile ==
  last.op = "LoadSeason" =>
    IF LoadedDocument.status = "missing"
      THEN /\ ~last.ret /\ ~last.parsed
           /\ requests = Append(last.pre_requests,
                                remote_location \o SeasonFileName(last.season))
      ELSE requests = last.pre_requests

\* C10 witness: a load found no file after an earlier one had enqueued a transfer
C10_Witness ==
  /\ last.op = "LoadSeason"
  /\ LoadedDocument.status = "missing"
  /\ Len(requests) = 2
  /\ requests[2] = <<"https://raw.githubusercontent.com/erengy/anime-seasons/master/data/",
                     "2018", "_", "spring", ".xml">>

\* C11: when the season file is read but does not parse, LoadFile shows an
\* error message, returns false and enqueues no transfer
C11_ParseFailure ==
  (last.op = "LoadSeason" /\ LoadedDocument.status = "corrupt") =>
    /\ last.parsed /\ last.error /\ ~last.ret
    /\ ~last.downloading
    /\ requests = last.pre_requests

\* C11 witness: a file that does not parse was loaded after an earlier load
\* had enqueued a transfer, and the queue still holds that transfer alone
C11_Witness ==
  /\ last.op = "LoadSeason"
  /\ LoadedDocument.status = "corrupt"
  /\ last.error /\ ~last.ret
  /\ Len(requests) = 1 /\ requests = last.pre_requests

\* the identifiers the steps of a load appended, in the order of the steps
RECURSIVE PushedIds(_)
PushedIds(trace) ==
  IF trace = <<>> THEN <<>>
  ELSE (IF Head(trace).pushed # 0 THEN <<Head(trace).pushed>> ELSE <<>>)
         \o PushedIds(Tail(trace))

\* C12: a rejected entry does not stop the load: every entry of the document
\* is resolved against the library as the entry before it left it, an entry
\* with an identifier for the current service is reconciled and appended
\* whatever was rejected before it, and LoadString returns true
C12_PerEntryIsolation ==
  (last.op = "LoadSeason" /\ LoadedDocument.status = "ok") =>
    /\ last.ret
    /\ Len(last.trace) = Len(LoadedDocument.nodes)
    /\ \A k \in StepRange :
         LET step == last.trace[k]
         IN /\ step.node = LoadedDocument.nodes[k]
            /\ step.before = (IF k = 1 THEN last.pre_lib ELSE last.trace[k - 1].after)
            /\ ~StepHasNoCurrentId(step) =>
                 /\ step.pushed # 0
                 /\ FindItemById(step.after, step.pushed) # 0
    /\ items = PushedIds(last.trace)

\* C12 witness: the first entry of the document was rejected and the second
\* one created a record and was appended
C12_Witness ==
  /\ Loaded
  /\ Len(last.trace) = 2
  /\ StepHasNoCurrentId(last.trace[1]) /\ last.trace[1].pushed = 0
  /\ last.trace[2].matched = 0 /\ last.trace[2].pushed # 0
  /\ Len(last.trace[2].after) = Len(last.trace[2].before) + 1
  /\ items = <<last.trace[2].pushed>>

\* the local id of the record that the n-th identifier tag of the step's
\* entry matches in the library the step found, 0 when it matches none
TagMatch(step, n) ==
  LET at == FindItem(step.before, step.node.ids[n].id,
                     GetServiceIdByName(step.node.ids[n].name))
  IN IF at # 0 THEN step.before[at].id ELSE 0
TagRange(step) == 1..Len(step.node.ids)
TagService(step, n) == GetServiceIdByName(step.node.ids[n].name)

\* C13 as stated: the resolver returns the record matched by the identifier
\* tag that comes first in the document entry among the tags that match
C13_DocumentOrder ==
  Loaded => \A k \in StepRange :
    LET step == last.trace[k]
    IN \A n \in TagRange(step) :
         (TagMatch(step, n) # 0 /\ \A m \in 1..(n - 1) : TagMatch(step, m) = 0)
           => step.matched = TagMatch(step, n)

\* C13 amended: the resolver returns the record matched by the identifier of
\* the lowest service id among the identifiers that match, wherever its tag
\* stands in the document entry, and no record when none matches
C13_ServiceOrder ==
  Loaded => \A k \in StepRange :
    LET step == last.trace[k]
    IN /\ \A n \in TagRange(step) :
            (/\ TagMatch(step, n) # 0
             /\ \A m \in TagRange(step) :
                  TagService(step, m) < TagService(step, n) => TagMatch(step, m) = 0)
              => step.matched = TagMatch(step, n)
       /\ (\A n \in TagRange(step) : TagMatch(step, n) = 0) => step.matched = 0

\* C13 witness: the two tags of an entry match different records, the tag of
\* the higher service id comes first, and the record of the second tag is
\* the one resolved
C13_Witness ==
  /\ Loaded
  /\ \E k \in StepRange :
       LET step == last.trace[k]
       IN /\ Len(step.node.ids) = 2
          /\ TagService(step, 1) > TagService(step, 2)
          /\ TagMatch(step, 1) # 0 /\ TagMatch(step, 2) # 0
          /\ TagMatch(step, 1) # TagMatch(step, 2)
          /\ step.matched = TagMatch(step, 2)

\* the entry of this step took the rejecting branch: it resolved to no
\* up-to-date record and names no identifier for the current service
StepRejected(step) ==
  /\ StepHasNoCurrentId(step)
  /\ \/ step.matched = 0
     \/ step.before[FindItemById(step.before, step.matched)].modified
          < LoadedDocument.modified

\* C14: after a load that parsed, the membership list is rebuilt from the
\* document alone: one identifier per entry that was not rejected, in
\* document order, each of a record that exists in the library, and nothing
\* of the list the load found
C14_WholesaleRebuild ==
  Loaded =>
    /\ Len(last.trace) = Len(LoadedDocument.nodes)
    /\ \A k \in StepRange : (last.trace[k].pushed = 0) <=> StepRejected(last.trace[k])
    /\ items = PushedIds(last.trace)
    /\ Len(items) = Cardinality({k \in StepRange : ~StepRejected(last.trace[k])})
    /\ \A k \in 1..Len(items) : FindItemById(lib, items[k]) # 0

\* C14 witness: a document without entries was loaded over a list that held
\* identifiers, and the list is empty
C14_Witness ==
  /\ Loaded
  /\ last.pre_items # <<>>
  /\ LoadedDocument.nodes = <<>>
  /\ items = <<>>

\* C15: the library is saved once by a load that parsed and left the
\* membership list non-empty, and not at all by a load that left it empty,
\* by a failed load, by Review or by LoadSeasonFromMemory
C15_PersistHook ==
  last.saved = (IF Loaded /\ items # <<>> THEN 1 ELSE 0)

\* C15 witness: a load whose entries were all rejected saved nothing
C15_Witness ==
  /\ Loaded
  /\ last.trace # <<>>
  /\ \A k \in StepRange : last.trace[k].pushed = 0
  /\ items = <<>>
  /\ last.saved = 0

\* the listed entries whose record exists and lacks a start date or a synopsis
Incomplete ==
  {k \in 1..Len(items) :
     \E i \in 1..Len(lib) :
       /\ lib[i].id = items[k]
       /\ (lib[i].date_start.year = 0 \/ lib[i].synopsis = "")}

\* C16: IsRefreshRequired returns true exactly when more than 20 entries of
\* the membership list refer to a record without a valid start date or
\* without a synopsis, and it changes neither the list nor the library
C16_RefreshThreshold ==
  last.op = "IsRefreshRequired" =>
    /\ last.ret <=> (Cardinality(Incomplete) > 20)
    /\ items = last.pre_items
    /\ lib = last.pre_lib

\* C16 witness: a refresh was required by exactly 21 incomplete entries of a
\* list that also holds an entry of a complete record
C16_Witness ==
  /\ last.op = "IsRefreshRequired"
  /\ last.ret
  /\ Cardinality(Incomplete) = 21
  /\ Len(items) = 22
  /\ \A k \in 1..Len(items) : FindItemById(lib, items[k]) # 0

\* the list that the review of the last operation started from
ReviewBase == IF last.op = "Review" THEN last.pre_items ELSE <<>>
\* the record passes the content policy and has a valid start date inside
\* the interval of the season
Qualifies(record) ==
  /\ ~(last.hide_nsfw /\ record.nsfw)
  /\ record.date_start.year > 0
  /\ DateLE(ReviewInterval.date_start, record.date_start)
  /\ DateLE(record.date_start, ReviewInterval.date_end)
\* the identifiers of the qualifying records absent from the list, in the
\* order of the library
Discovered ==
  LET found == SelectSeq(lib, LAMBDA record :
                                ~InList(ReviewBase, record.id) /\ Qualifies(record))
  IN [i \in 1..Len(found) |-> found[i].id]
Retained == SubSeq(items, 1, Len(items) - Len(Discovered))

\* C17: Review appends to the entries it retains exactly the library records
\* that were absent from the list, pass the content policy and have a valid
\* start date inside the interval, in library order; LoadSeasonFromMemory
\* leaves exactly the records that pass both checks
C17_DiscoverySoundComplete ==
  last.op \in {"Review", "LoadSeasonFromMemory"} =>
    \A added \in {Discovered} :
      \A kept \in {SubSeq(items, 1, Len(items) - Len(added))} :
        /\ Len(added) <= Len(items)
        /\ items = kept \o added
        /\ kept = SelectSeq(ReviewBase, LAMBDA anime_id : InList(kept, anime_id))
        /\ last.op = "LoadSeasonFromMemory" => items = added

\* C17 witness: Review retained the entry of a record that would not have
\* been discovered and appended a qualifying record after it
C17_Witness ==
  /\ Reviewed
  /\ Retained # <<>> /\ Discovered # <<>>
  /\ items = last.pre_items \o Discovered
  /\ \E i \in LibRange : InList(Retained, lib[i].id) /\ ~Qualifies(lib[i])

\* a review ran as the last operation, on its own or in LoadSeasonFromMemory
ReviewRan == last.op \in {"Review", "LoadSeasonFromMemory"}
\* the record has a valid start date and the content policy lets it pass
Eligible(record) == record.date_start.year > 0 /\ ~(last.hide_nsfw /\ record.nsfw)

\* C18 as stated: the interval is [start, end): after Review a record that
\* starts on the start bound is listed if the content policy lets it pass,
\* and a record with a valid start date on the end bound is not listed
C18_HalfOpenInterval ==
  ReviewRan => \A i \in LibRange :
    /\ (Eligible(lib[i]) /\ lib[i].date_start = ReviewInterval.date_start)
         => InList(items, lib[i].id)
    /\ (lib[i].date_start.year > 0 /\ lib[i].date_start = ReviewInterval.date_end)
         => ~InList(items, lib[i].id)

\* C18 amended: the interval is [start, end]: after Review a record that
\* starts on the start bound or on the end bound is listed if the content
\* policy lets it pass, whether it was listed before or not
C18_ClosedInterval ==
  ReviewRan => \A i \in LibRange :
    (/\ Eligible(lib[i])
     /\ lib[i].date_start \in {ReviewInterval.date_start, ReviewInterval.date_end})
      => InList(items, lib[i].id)

\* C18 witness: of two records that start on the end bound Review retained
\* the listed one and appended the other
C18_Witness ==
  /\ Reviewed
  /\ ReviewInterval.date_end # ReviewInterval.date_start
  /\ \E i, j \in LibRange :
       /\ lib[i].date_start = ReviewInterval.date_end
       /\ lib[j].date_start = ReviewInterval.date_end
       /\ InList(last.pre_items, lib[i].id) /\ InList(items, lib[i].id)
       /\ ~InList(last.pre_items, lib[j].id) /\ InList(items, lib[j].id)

\* C19: Review changes no record of the library, and a Review that follows
\* a review with the same policy, the library unchanged in between, leaves
\* the membership list as it found it
C19_ReviewIdempotent ==
  Reviewed =>
    /\ lib = last.pre_lib
    /\ last.again => items = last.pre_items

\* C19 witness: a second Review with the same policy found a list with an
\* entry, a library with a record outside the list, and changed neither
C19_Witness ==
  /\ Reviewed /\ last.again
  /\ items # <<>> /\ items = last.pre_items
  /\ \E i \in LibRange : ~InList(items, lib[i].id)
  /\ lib = last.pre_lib

\* C20: a load that fails, the file missing or not parsing, leaves the
\* membership list, the current season and every record of the library as
\* they were before the call
C20_FailedLoadFrame ==
  (last.op = "LoadSeason" /\ ~last.ret) =>
    /\ LoadedDocument.status \in {"missing", "corrupt"}
    /\ items = last.pre_items
    /\ current_season = last.pre_season
    /\ lib = last.pre_lib

\* C20 witness: the file of one season did not parse while the list held
\* the view of another season, and the view is still there
C20_Witness ==
  /\ last.op = "LoadSeason" /\ ~last.ret
  /\ LoadedDocument.status = "corrupt"
  /\ last.pre_items # <<>> /\ items = last.pre_items
  /\ current_season # NoSeason /\ current_season # last.season
  /\ lib # <<>>

====
